---- MODULE Spec2Model ----
(***************************************************************************)
(* A model of goleak's stack capture (getStackBuffer), stack parser        *)
(* (getStacks, parseGoStackHeader, parseFirstFunc) and test-main adapter   *)
(* (VerifyTestMain / verifyTestMain).                                      *)
(*                                                                         *)
(* A Go string or []byte is a sequence of one-character strings.           *)
(***************************************************************************)
EXTENDS Integers, Sequences, FiniteSets, TLC

VARIABLES
    \* ---- getStacks (the stack parser)
    pieces,      \* the lines the input was put together from (indices into Pool)
    raw,         \* the bytes getStackBuffer handed to the reader
    pos,         \* bytes the bufio.Reader has consumed
    stacks,      \* var stacks []Stack
    curStack,    \* var curStack *Stack: <<>> is nil, <<s>> points to s
    ret,         \* getStacks' outcome: idle, running, ok, err or panic
    \* ---- getStackBuffer (the snapshot capturer)
    dumpLen,     \* length of the dump the runtime has to report
    i,           \* the loop variable i: the buffer's capacity
    n,           \* what runtime.Stack reported for the last attempt
    attempts,    \* how many buffers were allocated
    out,         \* len(buf[:n]) as returned, -1 before the return
    cpc,         \* position in getStackBuffer
    \* ---- verifyTestMain and Find
    pc,          \* position in VerifyTestMain
    exitCode,    \* m.Run()'s result, -1 before it ran
    findCalls,   \* how often Find was invoked
    round,       \* Find's retry counter
    findErr,     \* what Find returned
    stderr,      \* the lines written to _osStderr
    osExit       \* the code handed to _osExit, -1 before

parseVars   == <<pieces, raw, pos, stacks, curStack, ret>>
captureVars == <<dumpLen, i, n, attempts, out, cpc>>
mainVars    == <<pc, exitCode, findCalls, round, findErr, stderr, osExit>>
vars        == <<pieces, raw, pos, stacks, curStack, ret,
                 dumpLen, i, n, attempts, out, cpc,
                 pc, exitCode, findCalls, round, findErr, stderr, osExit>>

(***************************************************************************)
(* Bounds                                                                  *)
(***************************************************************************)
\* Lines per input of the parser on its own.
MaxLines == 5

\* Lines per dump Find captures, and Find's retries after the first round.
MaxFindLines == 2

MaxRetries == 1

\* m.Run() returns a code in 0..MaxExitCode.
MaxExitCode == 2

\* The capturer's dumps are up to MaxQuarters quarter-buffers long.
MaxQuarters == 12

(***************************************************************************)
(* Strings                                                                 *)
(***************************************************************************)
Min(a, b) == IF a < b THEN a ELSE b

HasPrefix(s, p) == Len(s) >= Len(p) /\ SubSeq(s, 1, Len(p)) = p

HasSuffix(s, p) == Len(s) >= Len(p) /\ SubSeq(s, Len(s) - Len(p) + 1, Len(s)) = p

TrimPrefix(s, p) == IF HasPrefix(s, p) THEN SubSeq(s, Len(p) + 1, Len(s)) ELSE s

TrimSuffix(s, p) == IF HasSuffix(s, p) THEN SubSeq(s, 1, Len(s) - Len(p)) ELSE s

\* The one-byte white space of unicode.IsSpace.
IsSpace(c) == c \in {" ", "\t", "\n", "\r", "\f"}

TrimSpace(s) ==
    LET keep == {k \in 1..Len(s) : ~IsSpace(s[k])}
    IN  IF keep = {} THEN <<>>
        ELSE SubSeq(s, CHOOSE k \in keep : \A m \in keep : k <= m,
                       CHOOSE k \in keep : \A m \in keep : k >= m)

\* strings.LastIndex(s, c) for a one-byte c: 0-based, -1 when absent.
LastIndex(s, c) ==
    LET at == {k \in 1..Len(s) : s[k] = c}
    IN  IF at = {} THEN -1 ELSE (CHOOSE k \in at : \A m \in at : k >= m) - 1

\* strings.Index(s, c) for a one-byte c: 0-based, -1 when absent.
Index(s, c) ==
    LET at == {k \in 1..Len(s) : s[k] = c}
    IN  IF at = {} THEN -1 ELSE (CHOOSE k \in at : \A m \in at : k <= m) - 1

\* strings.SplitN(s, sep, 3) for a one-byte sep: at most three parts, the
\* last one the unsplit rest.
SplitN3(s, sep) ==
    LET a == Index(s, sep)
    IN  IF a < 0 THEN <<s>>
        ELSE LET rest1 == SubSeq(s, a + 2, Len(s))
                 b     == Index(rest1, sep)
             IN  IF b < 0 THEN <<SubSeq(s, 1, a), rest1>>
                 ELSE <<SubSeq(s, 1, a), SubSeq(rest1, 1, b),
                        SubSeq(rest1, b + 2, Len(rest1))>>

Digits == <<"0", "1", "2", "3", "4", "5", "6", "7", "8", "9">>

DigitVal(c) == (CHOOSE k \in 1..10 : Digits[k] = c) - 1

RECURSIVE DecVal(_)
DecVal(s) == IF s = <<>> THEN 0
             ELSE 10 * DecVal(SubSeq(s, 1, Len(s) - 1)) + DigitVal(s[Len(s)])

\* strconv.Atoi: an optional sign, then one or more decimal digits.  (The
\* ids of the inputs below have at most two digits, far from int's range.)
Atoi(s) ==
    LET signed == s # <<>> /\ s[1] \in {"+", "-"}
        ds     == IF signed THEN Tail(s) ELSE s
        good   == ds # <<>> /\ \A k \in 1..Len(ds) : \E d \in 1..10 : Digits[d] = ds[k]
    IN  IF ~good THEN [ok |-> FALSE, val |-> 0]
        ELSE [ok |-> TRUE,
              val |-> IF signed /\ s[1] = "-" THEN 0 - DecVal(ds) ELSE DecVal(ds)]

(***************************************************************************)
(* Errors: a Go error value is its dynamic type and which error it is.     *)
(***************************************************************************)
NilErr == [type |-> "nil", what |-> "nil"]

\* errors.New and fmt.Errorf (without %w) both build an *errors.errorString.
ErrorString(what) == [type |-> "*errors.errorString", what |-> what]

errNoStacks == ErrorString("no stacks parsed")

(***************************************************************************)
(* The stack parser                                                        *)
(***************************************************************************)
GoroutinePrefix == <<"g", "o", "r", "o", "u", "t", "i", "n", "e", " ">>

\* The lines inputs are put together from.  kind, id, state, fn and fnFirst
\* describe each line by hand, for the properties: a well-formed header
\* ("header", with its id and state), a header line that is malformed
\* ("badheader"), any other newline-terminated line ("body"), or bytes
\* without a newline ("partial").  For a body line, fn is its trimmed text up
\* to its last "(" and fnFirst up to its first "(" past the first byte; both
\* are <<>> where the trimmed line has no "(" past its first byte.
Pool == <<
    [text |-> GoroutinePrefix \o <<"1", " ", "[", "r", "u", "n", "]", ":", "\n">>,
     kind |-> "header", id |-> 1, state |-> <<"r", "u", "n">>,
     fn |-> <<>>, fnFirst |-> <<>>],
    [text |-> GoroutinePrefix \o <<"2", "2", " ", "[", "I", "O", " ", "w", "a", "i", "t", "]", ":", "\n">>,
     kind |-> "header", id |-> 22, state |-> <<"I", "O", " ", "w", "a", "i", "t">>,
     fn |-> <<>>, fnFirst |-> <<>>],
    [text |-> GoroutinePrefix \o <<"a", "b", "c", " ", "[", "r", "u", "n", "]", ":", "\n">>,
     kind |-> "badheader", id |-> 0, state |-> <<>>, fn |-> <<>>, fnFirst |-> <<>>],
    [text |-> GoroutinePrefix \o <<"7", ":", "\n">>,
     kind |-> "badheader", id |-> 0, state |-> <<>>, fn |-> <<>>, fnFirst |-> <<>>],
    [text |-> <<"m", ".", "f", "(", "1", ")", "\n">>,
     kind |-> "body", id |-> 0, state |-> <<>>,
     fn |-> <<"m", ".", "f">>, fnFirst |-> <<"m", ".", "f">>],
    [text |-> <<"m", ".", "(", "*", "T", ")", ".", "r", "(", "2", ")", "\n">>,
     kind |-> "body", id |-> 0, state |-> <<>>,
     fn |-> <<"m", ".", "(", "*", "T", ")", ".", "r">>, fnFirst |-> <<"m", ".">>],
    [text |-> <<"\t", "/", "a", ".", "g", "o", ":", "1", "\n">>,
     kind |-> "body", id |-> 0, state |-> <<>>, fn |-> <<>>, fnFirst |-> <<>>],
    [text |-> <<"\t", "(", "x", ")", "\n">>,
     kind |-> "body", id |-> 0, state |-> <<>>, fn |-> <<>>, fnFirst |-> <<>>],
    [text |-> <<"\n">>,
     kind |-> "body", id |-> 0, state |-> <<>>, fn |-> <<>>, fnFirst |-> <<>>],
    [text |-> <<"m", ".", "h", "(">>,
     kind |-> "partial", id |-> 0, state |-> <<>>, fn |-> <<>>, fnFirst |-> <<>>]
>>

Inputs(maxLines) == UNION {[1..k -> 1..Len(Pool)] : k \in 0..maxLines}

RECURSIVE Flatten(_)
Flatten(ps) == IF ps = <<>> THEN <<>> ELSE Pool[Head(ps)].text \o Flatten(Tail(ps))

\* type Stack struct
Stack(id, state) == [id |-> id, state |-> state, firstFunction |-> <<>>, fullStack |-> <<>>]

\* parseFirstFunc cutting at the first "(" instead of the last.
parseFirstFuncAtFirst(line) ==
    LET trimmed == TrimSpace(line)
        idx     == Index(trimmed, "(")
    IN  IF idx > 0 THEN [panic |-> FALSE, name |-> SubSeq(trimmed, 1, idx)]
        ELSE [panic |-> TRUE, name |-> <<>>]

\* parseFirstFunc: the name, or a panic.
parseFirstFunc(line) ==
    LET trimmed == TrimSpace(line)
        idx     == LastIndex(trimmed, "(")
    IN  IF idx > 0 THEN [panic |-> FALSE, name |-> SubSeq(trimmed, 1, idx)]
        ELSE [panic |-> TRUE, name |-> <<>>]

\* parseGoStackHeader
parseGoStackHeader(line0) ==
    LET line  == TrimSuffix(line0, <<":", "\n">>)
        parts == SplitN3(line, " ")
    IN  IF Len(parts) # 3
        THEN [id |-> 0, state |-> <<>>, err |-> ErrorString("stack header not in expected format")]
        ELSE LET a == Atoi(parts[2])
             IN  IF ~a.ok
                 THEN [id |-> 0, state |-> <<>>, err |-> ErrorString("failed to parse goroutine ID")]
                 ELSE [id |-> a.val,
                       state |-> TrimSuffix(TrimPrefix(parts[3], <<"[">>), <<"]">>),
                       err |-> NilErr]

\* getStacks' outcome: not called ("idle"), in its loop ("running"), or how
\* it ended: "ok" (stacks, nil), "err" (nil, err), "panic".
Idle == [kind |-> "idle", stacks |-> <<>>, err |-> NilErr]

Running == [kind |-> "running", stacks |-> <<>>, err |-> NilErr]

Returned(ss, err) == [kind |-> IF err = NilErr THEN "ok" ELSE "err", stacks |-> ss, err |-> err]

Panicked(why) == [kind |-> "panic", stacks |-> <<>>, err |-> ErrorString(why)]

\* stackReader.ReadString('\n'): the bytes up to and including the next
\* newline, or io.EOF (with whatever is left) when there is none.
Rest == SubSeq(raw, pos + 1, Len(raw))

AtEOF == Index(Rest, "\n") < 0

NextLine == SubSeq(Rest, 1, Index(Rest, "\n") + 1)

\* The flush that forgets the stack in progress.
FlushNothing(ss, cur) == ss

\* if curStack != nil { stacks = append(stacks, *curStack) }
Flush(ss, cur) == IF cur # <<>> THEN Append(ss, cur[1]) ELSE ss

\* One iteration of getStacks' loop that read a whole line.
ReadLine ==
    /\ ret.kind = "running"
    /\ ~AtEOF
    /\ LET line    == NextLine
           isFirst == HasPrefix(line, GoroutinePrefix)
           flushed == IF isFirst THEN Flush(stacks, curStack) ELSE stacks
           h       == parseGoStackHeader(line)
       IN  /\ pos' = pos + Len(line)
           /\ IF isFirst /\ h.err # NilErr
              THEN \* return nil, err
                   /\ ret' = Returned(<<>>, h.err)
                   /\ stacks' = flushed
                   /\ UNCHANGED curStack
              ELSE IF ~isFirst /\ curStack = <<>>
              THEN \* curStack.fullStack on a nil *Stack
                   /\ ret' = Panicked("nil pointer dereference")
                   /\ UNCHANGED <<stacks, curStack>>
              ELSE LET cur0 == IF isFirst THEN Stack(h.id, h.state) ELSE curStack[1]
                       cur1 == [cur0 EXCEPT !.fullStack = @ \o line]
                       ff   == parseFirstFunc(line)
                   IN  /\ stacks' = flushed
                       /\ IF ~isFirst /\ cur1.firstFunction = <<>>
                          THEN IF ff.panic
                               THEN /\ ret' = Panicked("function calls missing parents")
                                    /\ curStack' = <<cur1>>
                               ELSE /\ curStack' = <<[cur1 EXCEPT !.firstFunction = ff.name]>>
                                    /\ UNCHANGED ret
                          ELSE /\ curStack' = <<cur1>>
                               /\ UNCHANGED ret
    /\ UNCHANGED <<pieces, raw>>

\* ReadString reported io.EOF: break, flush the last stack and return.
EndOfInput ==
    /\ ret.kind = "running"
    /\ AtEOF
    /\ LET all == Flush(stacks, curStack)
       IN  /\ stacks' = all
           /\ ret' = IF Len(all) = 0 THEN Returned(<<>>, errNoStacks) ELSE Returned(all, NilErr)
    /\ pos' = Len(raw)
    /\ UNCHANGED <<pieces, raw, curStack>>

\* The parser on its own: getStacks applied to every input of up to
\* MaxLines lines of the pool.
ParseInit ==
    /\ pieces \in Inputs(MaxLines)
    /\ raw = Flatten(pieces)
    /\ pos = 0 /\ stacks = <<>> /\ curStack = <<>> /\ ret = Running
    /\ dumpLen = 0 /\ i = 0 /\ n = 0 /\ attempts = 0 /\ out = -1 /\ cpc = "idle"
    /\ pc = "idle" /\ exitCode = -1 /\ findCalls = 0 /\ round = 0
    /\ findErr = NilErr /\ stderr = <<>> /\ osExit = -1

ParseNext ==
    \/ ReadLine /\ UNCHANGED <<captureVars, mainVars>>
    \/ EndOfInput /\ UNCHANGED <<captureVars, mainVars>>

ParseSpec == ParseInit /\ [][ParseNext]_vars

(***************************************************************************)
(* The snapshot capturer                                                   *)
(***************************************************************************)
defaultBufferSize == 64 * 1024

\* runtime.Stack(buf, all): formats the dump into buf and returns the bytes
\* written, which is all of the dump or as much as buf holds.
RuntimeStack(len, cap) == Min(len, cap)

\* The test that also takes a full buffer for a fit.
FitsOrFull(nn, ii) == nn <= ii

\* n < i: the dump fitted, return buf[:n].
Fits(nn, ii) == nn < ii

\* i *= 2
Grow(ii) == ii * 2

\* buf := make([]byte, i); n := runtime.Stack(buf, all)
FillBuffer ==
    /\ cpc = "alloc"
    /\ attempts' = attempts + 1
    /\ n' = RuntimeStack(dumpLen, i)
    /\ cpc' = "filled"
    /\ UNCHANGED <<dumpLen, i, out>>

\* if n < i { return buf[:n] }, else the next iteration with i *= 2
CheckLength ==
    /\ cpc = "filled"
    /\ IF Fits(n, i)
       THEN out' = n /\ cpc' = "returned" /\ UNCHANGED i
       ELSE i' = Grow(i) /\ cpc' = "alloc" /\ UNCHANGED out
    /\ UNCHANGED <<dumpLen, n, attempts>>

DumpLens ==
    {q * (defaultBufferSize \div 4) + d : q \in 0..MaxQuarters, d \in {-1, 0, 1}} \cap Nat

CaptureInit ==
    /\ dumpLen \in DumpLens
    /\ i = defaultBufferSize /\ n = 0 /\ attempts = 0 /\ out = -1 /\ cpc = "alloc"
    /\ pieces = <<>> /\ raw = <<>> /\ pos = 0 /\ stacks = <<>> /\ curStack = <<>> /\ ret = Idle
    /\ pc = "idle" /\ exitCode = -1 /\ findCalls = 0 /\ round = 0
    /\ findErr = NilErr /\ stderr = <<>> /\ osExit = -1

CaptureNext ==
    \/ FillBuffer /\ UNCHANGED <<parseVars, mainVars>>
    \/ CheckLength /\ UNCHANGED <<parseVars, mainVars>>

\* The loop has no exit but the return and nothing stops it: it keeps
\* taking steps while it can.
CaptureSpec == CaptureInit /\ [][CaptureNext]_vars /\ WF_vars(CaptureNext)

(***************************************************************************)
(* The test-main adapter, and Find                                         *)
(***************************************************************************)
\* exitCode != 0
TestsFailed(code) == code # 0

\* The return that turns every failure into 1.
PassThroughAsOne(code) == 1

\* return exitCode
PassThrough(code) == code

\* The type check inverted.
IsNotStackParseErr(err) == err.type # "stackParseErr"

\* _, ok := err.(stackParseErr)
IsStackParseErr(err) == err.type = "stackParseErr"

\* What verifyTestMain writes and returns for Find's error.
HandleFindErr(err) ==
    IF err = NilErr THEN [written |-> <<>>, code |-> 0]
    ELSE IF IsStackParseErr(err)
    THEN [written |-> <<"goleak: skipped due to stack parsing failures">>, code |-> 0]
    ELSE [written |-> <<"goleak: failed due to stack parsing failures">>, code |-> 1]

\* exitCode := m.Run()
RunTests ==
    /\ pc = "start"
    /\ exitCode' \in 0..MaxExitCode
    /\ pc' = "ran"
    /\ UNCHANGED <<findCalls, round, findErr, stderr, osExit, parseVars>>

\* if exitCode != 0 { return exitCode }, and VerifyTestMain's _osExit of it
ReturnFailure ==
    /\ pc = "ran"
    /\ TestsFailed(exitCode)
    /\ osExit' = PassThrough(exitCode)
    /\ pc' = "exited"
    /\ UNCHANGED <<exitCode, findCalls, round, findErr, stderr, parseVars>>

\* err := Find(options...)
CallFind ==
    /\ pc = "ran"
    /\ ~TestsFailed(exitCode)
    /\ findCalls' = findCalls + 1
    /\ round' = 0
    /\ pc' = "find"
    /\ UNCHANGED <<exitCode, findErr, stderr, osExit, parseVars>>

\* Find's round begins: capture all tasks' dump and start parsing it.
FindCapture ==
    /\ pc = "find"
    /\ ret.kind = "idle"
    /\ pieces' \in Inputs(MaxFindLines)
    /\ raw' = Flatten(pieces')
    /\ pos' = 0 /\ stacks' = <<>> /\ curStack' = <<>> /\ ret' = Running
    /\ UNCHANGED mainVars

LeakDetected == ErrorString("found unexpected goroutines")

\* Find's round ends: a parse error is returned as it is; with no
\* candidate left Find returns nil; with candidates it retries, or returns
\* them as the leak once the retries are used up.  The policy (with the
\* exclusion of the calling task) is any set of ignored ids.
FindRound ==
    /\ pc = "find"
    /\ ret.kind \in {"ok", "err"}
    /\ \E ignored \in SUBSET {s.id : s \in {ret.stacks[k] : k \in 1..Len(ret.stacks)}} :
          LET candidates == SelectSeq(ret.stacks, LAMBDA s : s.id \notin ignored)
          IN  IF ret.kind = "err"
              THEN findErr' = ret.err /\ pc' = "found" /\ UNCHANGED <<round, ret>>
              ELSE IF candidates = <<>>
              THEN findErr' = NilErr /\ pc' = "found" /\ UNCHANGED <<round, ret>>
              ELSE IF round < MaxRetries
              THEN round' = round + 1 /\ ret' = Idle /\ UNCHANGED <<findErr, pc>>
              ELSE findErr' = LeakDetected /\ pc' = "found" /\ UNCHANGED <<round, ret>>
    /\ UNCHANGED <<exitCode, findCalls, stderr, osExit, pieces, raw, pos, stacks, curStack>>

\* A panic in getStacks unwinds through Find and verifyTestMain: the
\* process dies without _osExit being called.
FindPanics ==
    /\ pc = "find"
    /\ ret.kind = "panic"
    /\ pc' = "panicked"
    /\ UNCHANGED <<exitCode, findCalls, round, findErr, stderr, osExit, parseVars>>

\* The rest of verifyTestMain, and VerifyTestMain's _osExit of its result.
ReturnVerdict ==
    /\ pc = "found"
    /\ stderr' = stderr \o HandleFindErr(findErr).written
    /\ osExit' = HandleFindErr(findErr).code
    /\ pc' = "exited"
    /\ UNCHANGED <<exitCode, findCalls, round, findErr, parseVars>>

Init ==
    /\ pc = "start" /\ exitCode = -1 /\ findCalls = 0 /\ round = 0
    /\ findErr = NilErr /\ stderr = <<>> /\ osExit = -1
    /\ pieces = <<>> /\ raw = <<>> /\ pos = 0 /\ stacks = <<>> /\ curStack = <<>> /\ ret = Idle
    /\ dumpLen = 0 /\ i = 0 /\ n = 0 /\ attempts = 0 /\ out = -1 /\ cpc = "idle"

Next ==
    \/ RunTests /\ UNCHANGED captureVars
    \/ ReturnFailure /\ UNCHANGED captureVars
    \/ CallFind /\ UNCHANGED captureVars
    \/ FindCapture /\ UNCHANGED captureVars
    \/ ReadLine /\ UNCHANGED <<captureVars, mainVars>>
    \/ EndOfInput /\ UNCHANGED <<captureVars, mainVars>>
    \/ FindRound /\ UNCHANGED captureVars
    \/ FindPanics /\ UNCHANGED captureVars
    \/ ReturnVerdict /\ UNCHANGED captureVars

Spec == Init /\ [][Next]_vars

(***************************************************************************)
(* Properties                                                              *)
(***************************************************************************)
Kind(p) == Pool[p].kind

Prefix(ps, k) == SubSeq(ps, 1, k)

\* Every piece ends in a newline, so pieces and lines coincide.
Terminated(ps) == \A k \in 1..Len(ps) : Kind(ps[k]) # "partial"

\* One or more records, each a well-formed header followed by one or more
\* body lines, the first of which names a function.
WellFormed(ps) ==
    /\ ps # <<>>
    /\ Kind(ps[1]) = "header"
    /\ \A k \in 1..Len(ps) :
          /\ Kind(ps[k]) \in {"header", "body"}
          /\ Kind(ps[k]) = "header" =>
                /\ k < Len(ps)
                /\ Kind(ps[k + 1]) = "body"
                /\ Pool[ps[k + 1]].fn # <<>>

\* The records the lines ps describe, read off the lines' descriptions: a
\* header opens a record, a body line is added to the record in progress
\* and, as its first body line, names its function (by fnFirst if atFirst).
RECURSIVE Expect(_, _)
Expect(ps, atFirst) ==
    IF ps = <<>> THEN <<>>
    ELSE LET prev == Expect(Prefix(ps, Len(ps) - 1), atFirst)
             ln   == Pool[ps[Len(ps)]]
             last == prev[Len(prev)]
         IN  IF ln.kind = "header"
             THEN Append(prev, [id |-> ln.id, state |-> ln.state, firstFunction |-> <<>>,
                                fullStack |-> ln.text, bodies |-> 0])
             ELSE [prev EXCEPT ![Len(prev)] =
                      [id |-> last.id, state |-> last.state,
                       firstFunction |-> IF last.bodies > 0 THEN last.firstFunction
                                         ELSE IF atFirst THEN ln.fnFirst ELSE ln.fn,
                       fullStack |-> last.fullStack \o ln.text,
                       bodies |-> last.bodies + 1]]

\* The pieces the reader has consumed (for inputs whose pieces are lines).
Consumed ==
    Prefix(pieces, CHOOSE k \in 0..Len(pieces) : Len(Flatten(Prefix(pieces, k))) = pos)

\* The records getStacks holds: those flushed and the one in progress, or
\* the ones it returned.
Parsed == IF ret.kind = "ok" THEN ret.stacks ELSE stacks \o curStack

Finished == ret.kind \in {"ok", "err", "panic"}

ParseErrors == {"no stacks parsed", "stack header not in expected format",
                "failed to parse goroutine ID"}

\* C1: when m.Run() returns a non-zero r, Find is never invoked and the
\* code handed to the exit sink is exactly r.
C1_FailurePassesThrough ==
    exitCode > 0 =>
        /\ findCalls = 0
        /\ pc \in {"ran", "exited"}
        /\ ret.kind = "idle"
        /\ pc = "exited" => osExit = exitCode

C1_Witness == pc = "exited" /\ exitCode = 2 /\ osExit = 2 /\ findCalls = 0

\* C2: when m.Run() returns 0, Find is called exactly once, after the run;
\* the result is 0 if Find reports no leak, and 1 with a diagnostic written
\* to the error stream if Find reports a leak.
C2_VerdictAfterCleanRun ==
    /\ findCalls <= 1
    /\ findCalls = 1 => exitCode = 0
    /\ exitCode = 0 /\ pc # "ran" => findCalls = 1
    /\ pc = "exited" /\ exitCode = 0 /\ findErr = NilErr => osExit = 0
    /\ pc = "exited" /\ exitCode = 0 /\ findErr = LeakDetected =>
          osExit = 1 /\ Len(stderr) = 1

C2_Witness ==
    pc = "exited" /\ exitCode = 0 /\ findErr = LeakDetected /\ osExit = 1 /\ round = MaxRetries

\* C3: when m.Run() returns 0 and Find fails with a parse error of the
\* parser (a malformed header, or no stacks), the "skipped" line is written
\* and the exit code is 0.
C3_ParseErrorSkips ==
    pc = "exited" /\ exitCode = 0 /\ findErr.what \in ParseErrors =>
        /\ stderr = <<"goleak: skipped due to stack parsing failures">>
        /\ osExit = 0

\* C4: a well-formed dump of N >= 1 records parses to exactly N stacks in
\* input order, each with its header's id and state and a full text that is
\* its header and body lines, in order and complete.
C4_WellFormedParsed ==
    Finished /\ WellFormed(pieces) =>
        /\ ret.kind = "ok"
        /\ Len(ret.stacks) = Len(Expect(pieces, FALSE))
        /\ \A k \in 1..Len(ret.stacks) :
              /\ ret.stacks[k].id = Expect(pieces, FALSE)[k].id
              /\ ret.stacks[k].state = Expect(pieces, FALSE)[k].state
              /\ ret.stacks[k].fullStack = Expect(pieces, FALSE)[k].fullStack

C4_Witness ==
    /\ ret.kind = "ok" /\ WellFormed(pieces)
    /\ Len(ret.stacks) = 2
    /\ ret.stacks[1].id = 22 /\ ret.stacks[2].id = 1
    /\ ret.stacks[1].fullStack = Pool[2].text \o Pool[6].text \o Pool[7].text

\* A malformed header that follows zero or more complete records.
BadHeaderAt(k) ==
    /\ Kind(pieces[k]) = "badheader"
    /\ k = 1 \/ WellFormed(Prefix(pieces, k - 1))

\* C5: a header with fewer than three fields or a non-numeric id makes
\* getStacks stop at that line and return no stacks and an error of the
\* kind the adapter recognises as a parse failure.
C5_BadHeaderIsParseErr ==
    \A k \in 1..Len(pieces) :
        Finished /\ BadHeaderAt(k) =>
            /\ ret.kind = "err"
            /\ ret.stacks = <<>>
            /\ pos = Len(Flatten(Prefix(pieces, k)))
            /\ IsStackParseErr(ret.err)

\* A header whose first body line has no "(" past its first byte, after
\* zero or more complete records.
BadFirstBodyAt(k) ==
    /\ k < Len(pieces)
    /\ Kind(pieces[k]) = "header"
    /\ Kind(pieces[k + 1]) = "body" /\ Pool[pieces[k + 1]].fn = <<>>
    /\ k = 1 \/ WellFormed(Prefix(pieces, k - 1))

\* C6: a first body line without a "(" past its first byte makes getStacks
\* return a parse error and no stacks; it does not panic.
C6_BadFirstBodyIsParseErr ==
    \A k \in 1..Len(pieces) :
        Finished /\ BadFirstBodyAt(k) =>
            /\ ret.kind = "err"
            /\ ret.stacks = <<>>
            /\ IsStackParseErr(ret.err)

\* C7: for a dump of length L, getStackBuffer terminates; it returns only
\* when the reported length is below the capacity, doubles the capacity
\* after every attempt that filled the buffer (L = capacity included), and
\* returns all L bytes of the dump.
C7_CaptureComplete ==
    /\ <>(cpc = "returned")
    /\ [](cpc = "returned" => n < i /\ out = dumpLen)
    /\ [][cpc = "filled" =>
             IF n = i THEN i' = 2 * i /\ cpc' = "alloc" /\ out' = -1
             ELSE cpc' = "returned" /\ i' = i]_vars

C7_Witness ==
    cpc = "returned" /\ dumpLen = defaultBufferSize /\ attempts = 2 /\ out = dumpLen

\* C8: every failure path (tests failed, a leak, a parse error) writes
\* exactly one diagnostic line, and only a leak or failed tests end in a
\* non-zero exit code.
C8_OneDiagnosticPerFailure ==
    pc = "exited" =>
        /\ exitCode # 0 \/ findErr # NilErr => Len(stderr) = 1
        /\ osExit # 0 => exitCode # 0 \/ findErr = LeakDetected

\* The input's pieces are lines, and getStacks is in its loop or returned
\* stacks.
Parsing == Terminated(pieces) /\ ret.kind \in {"running", "ok"}

\* C9, as stated: each record's firstFunction is its first body line,
\* trimmed and cut at the first "(" past the first byte; the header and
\* later body lines do not change it.
C9_CutAtFirstParen ==
    Parsing =>
        /\ Len(Parsed) = Len(Expect(Consumed, TRUE))
        /\ \A k \in 1..Len(Parsed) :
              Parsed[k].firstFunction = Expect(Consumed, TRUE)[k].firstFunction

\* C9, amended: each record's firstFunction is its first body line, trimmed
\* and cut at the last "("; it is empty until the first body line is read,
\* and the header and later body lines do not change it.
C9_CutAtLastParen ==
    Parsing =>
        /\ Len(Parsed) = Len(Expect(Consumed, FALSE))
        /\ \A k \in 1..Len(Parsed) :
              Parsed[k].firstFunction = Expect(Consumed, FALSE)[k].firstFunction

C9_Witness ==
    /\ ret.kind = "ok" /\ pieces = <<1, 6, 5>>
    /\ ret.stacks[1].firstFunction = <<"m", ".", "(", "*", "T", ")", ".", "r">>

\* C10: getStacks never panics: it ends with stacks or an error, and an
\* input that begins with a line that is no header ends with a parse error
\* other than "no stacks".
C10_NeverPanics ==
    Finished =>
        /\ ret.kind # "panic"
        /\ ret.kind = "ok" => ret.stacks # <<>>
        /\ pieces # <<>> /\ Kind(pieces[1]) = "body" =>
              ret.kind = "err" /\ ret.err # errNoStacks

====
